---- MODULE Spec2Model ----
(***************************************************************************)
(* A model of the opt_refactor pipeline: the tag classifier                *)
(* (classifier.py), the style palette and its resolver (styles.py) and the *)
(* KML assembler with its text sanitiser (generator.py).                   *)
(*                                                                         *)
(* Python str values are TLA+ strings; characters are read with SubSeq and *)
(* ordered by code point, as Python compares them.  Optional values are     *)
(* None (the empty tuple) or Some(x) (a one-element tuple).  Floats of the  *)
(* palette are kept in tenths (line_width 4.5 is 45).                       *)
(***************************************************************************)
EXTENDS Integers, Sequences, FiniteSets, TLC

VARIABLES
  c_tags,        \* classify: the tag mapping of the feature under test
  c_result,      \* classify: None before the call, Some(classification) after
  s_args,        \* styles: two (category, subcategory) argument pairs
  s_result,      \* get_style on the first pair: None, or Some(outcome)
  s_ids,         \* style_id on both pairs: None, or Some(<<id1, id2>>)
  t_text,        \* _sanitise_text: the text under test
  t_result,      \* _sanitise_text: None before the call, Some(text) after
  features,      \* generate_styled_kml: the features argument
  use_folders,   \* generate_styled_kml: the use_folders argument
  document_name, \* generate_styled_kml: the document_name argument
  pc,            \* generate_styled_kml: where the call is
  next_feature,  \* index of the next feature of the classify loop
  next_group,    \* index of the next item of sorted(grouped.items())
  classified,    \* the list of (feature, classification)
  styles_needed, \* dict sid -> (style, geometry type), as items
  grouped,       \* dict category -> list of (feature, classification), as items
  doc,           \* the Document element: name, description, children
  p_feature,     \* _build_placemark: the feature argument
  p_cls,         \* _build_placemark: the cls argument
  p_result,      \* _build_placemark: None before the call, Some(placemark) after
  loaded_styles  \* styles.py: the module global _STYLES as the process holds it

classify_vars == <<c_tags, c_result>>
style_vars == <<s_args, s_result, s_ids>>
sanitise_vars == <<t_text, t_result>>
call_vars == <<features, use_folders, document_name>>
placemark_vars == <<p_feature, p_cls, p_result>>
config_vars == <<loaded_styles>>
generate_vars == <<call_vars, pc, next_feature, next_group, classified, styles_needed, grouped, doc>>

vars == <<classify_vars, style_vars, sanitise_vars, placemark_vars, generate_vars, config_vars>>

-----------------------------------------------------------------------------
(* Python values *)

None == <<>>
Some(x) == <<x>>

Range(s) == {s[k] : k \in DOMAIN s}

\* dict.get(key): None when the key is absent
dict_get(d, key) == IF key \in DOMAIN d THEN Some(d[key]) ELSE None

\* The printable ASCII characters in code point order: 32 (space) to 95 (_)
\* and 97 (a) to 126 (~).  Code point 96 cannot be written in a TLA+ string
\* and occurs in no text of the model.
PrintableLow == " !\"#$%&'()*+,-./0123456789:;<=>?@ABCDEFGHIJKLMNOPQRSTUVWXYZ[\\]^_"

PrintableHigh == "abcdefghijklmnopqrstuvwxyz{|}~"

char_at(s, k) == SubSeq(s, k, k)

index_of(c, s) == CHOOSE k \in 1..Len(s) : char_at(s, k) = c

PrintableChars ==
  {char_at(PrintableLow, k) : k \in 1..Len(PrintableLow)}
    \cup {char_at(PrintableHigh, k) : k \in 1..Len(PrintableHigh)}

CodePoint ==
  [c \in PrintableChars \cup {"\t", "\n"} |->
     IF c = "\t" THEN 9
     ELSE IF c = "\n" THEN 10
     ELSE IF \E k \in 1..Len(PrintableLow) : char_at(PrintableLow, k) = c
          THEN 31 + index_of(c, PrintableLow)
          ELSE 96 + index_of(c, PrintableHigh)]

\* ord(c) of a one-character string
ord(c) == CodePoint[c]

\* a < b on str: lexicographic by code point, a proper prefix is smaller
RECURSIVE str_lt_from(_, _, _)
str_lt_from(a, b, k) ==
  IF k > Len(b) THEN FALSE
  ELSE IF k > Len(a) THEN TRUE
  ELSE IF char_at(a, k) = char_at(b, k) THEN str_lt_from(a, b, k + 1)
  ELSE ord(char_at(a, k)) < ord(char_at(b, k))

str_lt(a, b) == str_lt_from(a, b, 1)

\* sorted(keys) of a set of distinct strings: ascending by str_lt
RECURSIVE sorted_strs(_)
sorted_strs(S) ==
  IF S = {} THEN <<>>
  ELSE LET m == CHOOSE x \in S : \A y \in S \ {x} : str_lt(x, y)
       IN <<m>> \o sorted_strs(S \ {m})

-----------------------------------------------------------------------------
(* classifier.py *)

Classification(category, subcategory) ==
  [category |-> category, subcategory |-> subcategory]

\* One rule: (osm_key, set_of_values | None, category, subcategory)
Rule(key, values, category, subcategory) ==
  [key |-> key, values |-> values, category |-> category, subcategory |-> subcategory]

\* A plausible slip: the any-value rule of a key put before the key's
\* value-set rule.
_RULES_catch_all_first ==
  <<
    Rule("natural", None, "natural", "other"),
    Rule("natural", Some({"water"}), "water", "lake"),
    Rule("water", None, "water", "lake")
  >>

_RULES ==
  <<
    Rule("highway", Some({"motorway", "motorway_link"}), "road", "motorway"),
    Rule("highway", Some({"trunk", "trunk_link"}), "road", "trunk"),
    Rule("highway", Some({"primary", "primary_link"}), "road", "primary"),
    Rule("highway", Some({"secondary", "secondary_link"}), "road", "secondary"),
    Rule("highway", Some({"tertiary", "tertiary_link"}), "road", "tertiary"),
    Rule("highway", Some({"residential", "living_street"}), "road", "residential"),
    Rule("highway", Some({"service"}), "road", "service"),
    Rule("highway", Some({"unclassified"}), "road", "unclassified"),
    Rule("highway", Some({"footway", "pedestrian", "path", "steps"}), "road", "footway"),
    Rule("highway", Some({"cycleway"}), "road", "cycleway"),
    Rule("highway", Some({"track"}), "road", "track"),
    Rule("highway", None, "road", "other"),
    Rule("railway", Some({"rail", "light_rail", "narrow_gauge"}), "railway", "rail"),
    Rule("railway", Some({"subway"}), "railway", "subway"),
    Rule("railway", Some({"tram"}), "railway", "tram"),
    Rule("railway", Some({"station", "halt"}), "railway", "station"),
    Rule("railway", None, "railway", "other"),
    Rule("waterway", Some({"river", "canal"}), "water", "river"),
    Rule("waterway", Some({"stream", "drain", "ditch"}), "water", "stream"),
    Rule("waterway", None, "water", "waterway"),
    Rule("natural", Some({"water"}), "water", "lake"),
    Rule("water", None, "water", "lake"),
    Rule("building", Some({"church", "cathedral", "chapel", "mosque", "temple", "synagogue"}), "building", "worship"),
    Rule("building", Some({"school", "university", "college", "kindergarten"}), "building", "education"),
    Rule("building", Some({"hospital"}), "building", "hospital"),
    Rule("building", Some({"commercial", "retail", "office"}), "building", "commercial"),
    Rule("building", Some({"industrial", "warehouse"}), "building", "industrial"),
    Rule("building", None, "building", "general"),
    Rule("leisure", Some({"park", "garden"}), "green", "park"),
    Rule("leisure", Some({"nature_reserve"}), "green", "nature_reserve"),
    Rule("leisure", Some({"playground"}), "green", "playground"),
    Rule("leisure", Some({"pitch", "sports_centre", "stadium"}), "sport", "facility"),
    Rule("boundary", Some({"national_park", "protected_area"}), "green", "protected"),
    Rule("landuse", Some({"forest"}), "green", "forest"),
    Rule("landuse", Some({"grass", "meadow", "village_green"}), "green", "grass"),
    Rule("landuse", Some({"orchard", "vineyard", "allotments"}), "green", "agriculture"),
    Rule("natural", Some({"wood"}), "green", "forest"),
    Rule("natural", Some({"scrub", "heath", "grassland"}), "green", "scrub"),
    Rule("landuse", Some({"residential"}), "landuse", "residential"),
    Rule("landuse", Some({"commercial", "retail"}), "landuse", "commercial"),
    Rule("landuse", Some({"industrial"}), "landuse", "industrial"),
    Rule("landuse", Some({"farmland", "farmyard"}), "landuse", "farmland"),
    Rule("landuse", Some({"cemetery"}), "landuse", "cemetery"),
    Rule("landuse", Some({"military"}), "landuse", "military"),
    Rule("landuse", None, "landuse", "other"),
    Rule("amenity", Some({"restaurant", "cafe", "fast_food", "bar", "pub", "food_court"}), "amenity", "food"),
    Rule("amenity", Some({"school", "university", "college", "kindergarten", "library"}), "amenity", "education"),
    Rule("amenity", Some({"hospital", "clinic", "doctors", "dentist", "pharmacy"}), "amenity", "health"),
    Rule("amenity", Some({"parking", "fuel", "charging_station"}), "amenity", "transport"),
    Rule("amenity", Some({"police", "fire_station"}), "amenity", "emergency"),
    Rule("amenity", Some({"place_of_worship"}), "amenity", "worship"),
    Rule("amenity", Some({"bank", "atm"}), "amenity", "finance"),
    Rule("amenity", None, "amenity", "other"),
    Rule("tourism", Some({"hotel", "motel", "hostel", "guest_house"}), "tourism", "accommodation"),
    Rule("tourism", Some({"museum", "gallery", "artwork"}), "tourism", "culture"),
    Rule("tourism", Some({"viewpoint"}), "tourism", "viewpoint"),
    Rule("tourism", Some({"camp_site", "caravan_site"}), "tourism", "camping"),
    Rule("tourism", None, "tourism", "other"),
    Rule("shop", Some({"supermarket", "convenience"}), "shop", "grocery"),
    Rule("shop", None, "shop", "other"),
    Rule("power", Some({"line", "minor_line"}), "utility", "power_line"),
    Rule("power", Some({"tower", "pole"}), "utility", "power_tower"),
    Rule("power", Some({"plant", "generator", "substation"}), "utility", "power_facility"),
    Rule("power", None, "utility", "power"),
    Rule("man_made", Some({"pipeline"}), "utility", "pipeline"),
    Rule("man_made", Some({"water_tower", "tower", "mast"}), "utility", "tower"),
    Rule("barrier", Some({"fence", "wall"}), "barrier", "linear"),
    Rule("barrier", Some({"gate", "bollard", "lift_gate"}), "barrier", "access"),
    Rule("barrier", None, "barrier", "other"),
    Rule("aeroway", Some({"runway", "taxiway"}), "aeroway", "runway"),
    Rule("aeroway", Some({"terminal", "gate"}), "aeroway", "terminal"),
    Rule("aeroway", None, "aeroway", "other"),
    Rule("natural", Some({"peak", "volcano"}), "natural", "peak"),
    Rule("natural", Some({"cliff"}), "natural", "cliff"),
    Rule("natural", Some({"beach"}), "natural", "beach"),
    Rule("natural", Some({"tree"}), "natural", "tree"),
    Rule("natural", None, "natural", "other"),
    Rule("boundary", Some({"administrative"}), "boundary", "administrative"),
    Rule("boundary", None, "boundary", "other"),
    Rule("public_transport", Some({"station", "stop_position", "platform"}), "transport", "stop"),
    Rule("public_transport", None, "transport", "other")
  >>

_DEFAULT == Classification("other", "unknown")

\* The for loop of classify from rule k on: the first matching rule returns.
RECURSIVE classify_from(_, _)
classify_from(tags, k) ==
  IF k > Len(_RULES) THEN _DEFAULT
  ELSE LET rule == _RULES[k]
           tag_val == dict_get(tags, rule.key)
       IN IF tag_val = None THEN classify_from(tags, k + 1)
          ELSE IF rule.values = None \/ tag_val[1] \in rule.values[1]
               THEN Classification(rule.category, rule.subcategory)
               ELSE classify_from(tags, k + 1)

\* A plausible slip: the loop does not return at the first match, and the
\* last matching rule decides.
RECURSIVE classify_last_from(_, _)
classify_last_from(tags, k) ==
  IF k < 1 THEN _DEFAULT
  ELSE LET rule == _RULES[k]
           tag_val == dict_get(tags, rule.key)
       IN IF tag_val # None /\ (rule.values = None \/ tag_val[1] \in rule.values[1])
          THEN Classification(rule.category, rule.subcategory)
          ELSE classify_last_from(tags, k - 1)

classify_last_match(tags) == classify_last_from(tags, Len(_RULES))

\* A plausible slip: the test for an absent key is left out, and an
\* any-value rule accepts a mapping without its key.
RECURSIVE classify_no_absent_from(_, _)
classify_no_absent_from(tags, k) ==
  IF k > Len(_RULES) THEN _DEFAULT
  ELSE LET rule == _RULES[k]
           tag_val == dict_get(tags, rule.key)
       IN IF rule.values = None \/ (tag_val # None /\ tag_val[1] \in rule.values[1])
          THEN Classification(rule.category, rule.subcategory)
          ELSE classify_no_absent_from(tags, k + 1)

classify_absent_key_matches(tags) == classify_no_absent_from(tags, 1)

\* A plausible slip: the any-value rules are tried before the rules with a
\* value set.
classify_catch_all_first(tags) ==
  LET present == {k \in DOMAIN _RULES :
                    _RULES[k].values = None /\ _RULES[k].key \in DOMAIN tags}
  IN IF present # {}
     THEN LET first == CHOOSE k \in present : \A j \in present : k <= j
          IN Classification(_RULES[first].category, _RULES[first].subcategory)
     ELSE classify_from(tags, 1)

classify(tags) == classify_from(tags, 1)

-----------------------------------------------------------------------------
(* styles.py *)

\* str.lstrip(chars) for a one-character set: drop every leading ch
RECURSIVE lstrip_char(_, _)
lstrip_char(s, ch) ==
  IF Len(s) > 0 /\ char_at(s, 1) = ch THEN lstrip_char(SubSeq(s, 2, Len(s)), ch) ELSE s

\* s[lo:hi] of Python (0-based, hi exclusive, clamped to the string)
slice(s, lo, hi) ==
  LET top == IF hi > Len(s) THEN Len(s) ELSE hi
  IN IF lo >= top THEN "" ELSE SubSeq(s, lo + 1, top)

\* "#RRGGBB" or "RRGGBB" to KML "aabbggrr"
rgb_to_kml(hex_rgb, alpha) ==
  LET h == lstrip_char(hex_rgb, "#")
      r == slice(h, 0, 2)
      g == slice(h, 2, 4)
      b == slice(h, 4, 6)
  IN alpha \o b \o g \o r

\* The dataclass FeatureStyle; widths and scales in tenths.  poly_fill,
\* poly_outline, label_color and label_scale keep their defaults in every
\* palette entry.
FeatureStyle(line_color, line_width, poly_color, icon_href, icon_scale) ==
  [line_color |-> line_color, line_width |-> line_width,
   poly_color |-> poly_color, poly_fill |-> TRUE, poly_outline |-> TRUE,
   icon_href |-> icon_href, icon_scale |-> icon_scale,
   label_color |-> "ffffffff", label_scale |-> 8]

_GICON == "http://maps.google.com/mapfiles/kml"

ICON_CIRCLE == _GICON \o "/shapes/placemark_circle.png"
ICON_SQUARE == _GICON \o "/shapes/placemark_square.png"
ICON_STAR == _GICON \o "/shapes/star.png"
ICON_TRIANGLE == _GICON \o "/shapes/triangle.png"
ICON_DINING == _GICON \o "/shapes/dining.png"
ICON_SCHOOLS == _GICON \o "/paddle/grn-blank.png"
ICON_HOSPITAL == _GICON \o "/paddle/red-circle.png"
ICON_PARKING == _GICON \o "/paddle/blu-blank.png"
ICON_POLICE == _GICON \o "/paddle/blu-circle.png"
ICON_WORSHIP == _GICON \o "/paddle/purple-blank.png"
ICON_HOTEL == _GICON \o "/paddle/ylw-blank.png"
ICON_MUSEUM == _GICON \o "/paddle/pink-blank.png"
ICON_VIEWPOINT == _GICON \o "/shapes/camera.png"
ICON_CAMPING == _GICON \o "/paddle/grn-circle.png"
ICON_SHOP == _GICON \o "/paddle/wht-blank.png"
ICON_TREE == _GICON \o "/shapes/parks.png"
ICON_PEAK == _GICON \o "/shapes/mountains.png"
ICON_RAIL_STATION == _GICON \o "/shapes/rail.png"
ICON_BUS == _GICON \o "/shapes/bus.png"
ICON_DEFAULT == _GICON \o "/paddle/wht-circle.png"

_STYLE_ITEMS ==
  <<
    <<<<"road", "motorway">>, FeatureStyle(rgb_to_kml("#E74C3C", "ff"), 50, "", "", 10)>>,
    <<<<"road", "trunk">>, FeatureStyle(rgb_to_kml("#E67E22", "ff"), 45, "", "", 10)>>,
    <<<<"road", "primary">>, FeatureStyle(rgb_to_kml("#F39C12", "ff"), 40, "", "", 10)>>,
    <<<<"road", "secondary">>, FeatureStyle(rgb_to_kml("#F1C40F", "ff"), 35, "", "", 10)>>,
    <<<<"road", "tertiary">>, FeatureStyle(rgb_to_kml("#FFFFFF", "ff"), 30, "", "", 10)>>,
    <<<<"road", "residential">>, FeatureStyle(rgb_to_kml("#BDC3C7", "ff"), 25, "", "", 10)>>,
    <<<<"road", "service">>, FeatureStyle(rgb_to_kml("#95A5A6", "ff"), 20, "", "", 10)>>,
    <<<<"road", "unclassified">>, FeatureStyle(rgb_to_kml("#BDC3C7", "ff"), 20, "", "", 10)>>,
    <<<<"road", "footway">>, FeatureStyle(rgb_to_kml("#E88DB4", "ff"), 15, "", "", 10)>>,
    <<<<"road", "cycleway">>, FeatureStyle(rgb_to_kml("#2980B9", "ff"), 20, "", "", 10)>>,
    <<<<"road", "track">>, FeatureStyle(rgb_to_kml("#8B6914", "ff"), 15, "", "", 10)>>,
    <<<<"road", "*">>, FeatureStyle(rgb_to_kml("#CCCCCC", "ff"), 20, "", "", 10)>>,
    <<<<"railway", "rail">>, FeatureStyle(rgb_to_kml("#2C3E50", "ff"), 30, "", ICON_RAIL_STATION, 10)>>,
    <<<<"railway", "subway">>, FeatureStyle(rgb_to_kml("#8E44AD", "ff"), 30, "", ICON_RAIL_STATION, 10)>>,
    <<<<"railway", "tram">>, FeatureStyle(rgb_to_kml("#C0392B", "ff"), 20, "", ICON_RAIL_STATION, 10)>>,
    <<<<"railway", "station">>, FeatureStyle(rgb_to_kml("#2C3E50", "ff"), 20, "", ICON_RAIL_STATION, 12)>>,
    <<<<"railway", "*">>, FeatureStyle(rgb_to_kml("#2C3E50", "ff"), 20, "", ICON_RAIL_STATION, 10)>>,
    <<<<"water", "river">>, FeatureStyle(rgb_to_kml("#2980B9", "ff"), 35, rgb_to_kml("#3498DB", "80"), "", 10)>>,
    <<<<"water", "stream">>, FeatureStyle(rgb_to_kml("#5DADE2", "ff"), 20, "", "", 10)>>,
    <<<<"water", "lake">>, FeatureStyle(rgb_to_kml("#2471A3", "ff"), 20, rgb_to_kml("#3498DB", "80"), "", 10)>>,
    <<<<"water", "*">>, FeatureStyle(rgb_to_kml("#2980B9", "ff"), 20, rgb_to_kml("#3498DB", "80"), "", 10)>>,
    <<<<"building", "worship">>, FeatureStyle(rgb_to_kml("#8E44AD", "ff"), 15, rgb_to_kml("#D2B4DE", "90"), ICON_WORSHIP, 10)>>,
    <<<<"building", "education">>, FeatureStyle(rgb_to_kml("#27AE60", "ff"), 15, rgb_to_kml("#A9DFBF", "90"), ICON_SCHOOLS, 10)>>,
    <<<<"building", "hospital">>, FeatureStyle(rgb_to_kml("#E74C3C", "ff"), 15, rgb_to_kml("#F5B7B1", "90"), ICON_HOSPITAL, 10)>>,
    <<<<"building", "commercial">>, FeatureStyle(rgb_to_kml("#2980B9", "ff"), 15, rgb_to_kml("#AED6F1", "90"), "", 10)>>,
    <<<<"building", "industrial">>, FeatureStyle(rgb_to_kml("#7F8C8D", "ff"), 15, rgb_to_kml("#D5D8DC", "90"), "", 10)>>,
    <<<<"building", "*">>, FeatureStyle(rgb_to_kml("#B0703C", "ff"), 10, rgb_to_kml("#E8C9A0", "90"), "", 10)>>,
    <<<<"green", "park">>, FeatureStyle(rgb_to_kml("#27AE60", "ff"), 20, rgb_to_kml("#2ECC71", "70"), ICON_TREE, 10)>>,
    <<<<"green", "forest">>, FeatureStyle(rgb_to_kml("#1E8449", "ff"), 20, rgb_to_kml("#196F3D", "70"), "", 10)>>,
    <<<<"green", "nature_reserve">>, FeatureStyle(rgb_to_kml("#1ABC9C", "ff"), 25, rgb_to_kml("#A3E4D7", "60"), "", 10)>>,
    <<<<"green", "grass">>, FeatureStyle(rgb_to_kml("#82E0AA", "ff"), 15, rgb_to_kml("#ABEBC6", "70"), "", 10)>>,
    <<<<"green", "protected">>, FeatureStyle(rgb_to_kml("#1ABC9C", "ff"), 30, rgb_to_kml("#A3E4D7", "50"), "", 10)>>,
    <<<<"green", "*">>, FeatureStyle(rgb_to_kml("#27AE60", "ff"), 15, rgb_to_kml("#2ECC71", "60"), "", 10)>>,
    <<<<"sport", "*">>, FeatureStyle(rgb_to_kml("#F39C12", "ff"), 20, rgb_to_kml("#F9E79F", "70"), "", 10)>>,
    <<<<"landuse", "residential">>, FeatureStyle(rgb_to_kml("#D5D8DC", "ff"), 10, rgb_to_kml("#EAECEE", "50"), "", 10)>>,
    <<<<"landuse", "commercial">>, FeatureStyle(rgb_to_kml("#AED6F1", "ff"), 10, rgb_to_kml("#D6EAF8", "50"), "", 10)>>,
    <<<<"landuse", "industrial">>, FeatureStyle(rgb_to_kml("#ABB2B9", "ff"), 10, rgb_to_kml("#D5D8DC", "50"), "", 10)>>,
    <<<<"landuse", "farmland">>, FeatureStyle(rgb_to_kml("#F5CBA7", "ff"), 10, rgb_to_kml("#FDEBD0", "50"), "", 10)>>,
    <<<<"landuse", "cemetery">>, FeatureStyle(rgb_to_kml("#7D8B8A", "ff"), 15, rgb_to_kml("#ABB2B9", "60"), "", 10)>>,
    <<<<"landuse", "military">>, FeatureStyle(rgb_to_kml("#E74C3C", "ff"), 25, rgb_to_kml("#F5B7B1", "40"), "", 10)>>,
    <<<<"landuse", "*">>, FeatureStyle(rgb_to_kml("#D5D8DC", "ff"), 10, rgb_to_kml("#EAECEE", "40"), "", 10)>>,
    <<<<"amenity", "food">>, FeatureStyle(rgb_to_kml("#E67E22", "ff"), 15, "", ICON_DINING, 11)>>,
    <<<<"amenity", "education">>, FeatureStyle(rgb_to_kml("#27AE60", "ff"), 15, "", ICON_SCHOOLS, 11)>>,
    <<<<"amenity", "health">>, FeatureStyle(rgb_to_kml("#E74C3C", "ff"), 15, "", ICON_HOSPITAL, 11)>>,
    <<<<"amenity", "transport">>, FeatureStyle(rgb_to_kml("#3498DB", "ff"), 15, "", ICON_PARKING, 10)>>,
    <<<<"amenity", "emergency">>, FeatureStyle(rgb_to_kml("#2980B9", "ff"), 15, "", ICON_POLICE, 11)>>,
    <<<<"amenity", "worship">>, FeatureStyle(rgb_to_kml("#8E44AD", "ff"), 15, "", ICON_WORSHIP, 11)>>,
    <<<<"amenity", "finance">>, FeatureStyle(rgb_to_kml("#2C3E50", "ff"), 15, "", ICON_SQUARE, 10)>>,
    <<<<"amenity", "*">>, FeatureStyle(rgb_to_kml("#E67E22", "ff"), 15, "", ICON_CIRCLE, 9)>>,
    <<<<"tourism", "accommodation">>, FeatureStyle(rgb_to_kml("#F1C40F", "ff"), 15, "", ICON_HOTEL, 11)>>,
    <<<<"tourism", "culture">>, FeatureStyle(rgb_to_kml("#E91E8C", "ff"), 15, "", ICON_MUSEUM, 11)>>,
    <<<<"tourism", "viewpoint">>, FeatureStyle(rgb_to_kml("#3498DB", "ff"), 15, "", ICON_VIEWPOINT, 11)>>,
    <<<<"tourism", "camping">>, FeatureStyle(rgb_to_kml("#27AE60", "ff"), 15, "", ICON_CAMPING, 11)>>,
    <<<<"tourism", "*">>, FeatureStyle(rgb_to_kml("#F1C40F", "ff"), 15, "", ICON_STAR, 10)>>,
    <<<<"shop", "*">>, FeatureStyle(rgb_to_kml("#AF7AC5", "ff"), 15, "", ICON_SHOP, 10)>>,
    <<<<"utility", "power_line">>, FeatureStyle(rgb_to_kml("#7F8C8D", "ff"), 15, "", "", 10)>>,
    <<<<"utility", "power_tower">>, FeatureStyle(rgb_to_kml("#7F8C8D", "ff"), 10, "", ICON_TRIANGLE, 8)>>,
    <<<<"utility", "power_facility">>, FeatureStyle(rgb_to_kml("#F39C12", "ff"), 20, rgb_to_kml("#F9E79F", "60"), "", 10)>>,
    <<<<"utility", "*">>, FeatureStyle(rgb_to_kml("#7F8C8D", "ff"), 15, "", "", 10)>>,
    <<<<"barrier", "linear">>, FeatureStyle(rgb_to_kml("#616A6B", "ff"), 15, "", "", 10)>>,
    <<<<"barrier", "access">>, FeatureStyle(rgb_to_kml("#E74C3C", "ff"), 10, "", ICON_SQUARE, 7)>>,
    <<<<"barrier", "*">>, FeatureStyle(rgb_to_kml("#616A6B", "ff"), 10, "", "", 10)>>,
    <<<<"aeroway", "runway">>, FeatureStyle(rgb_to_kml("#2C3E50", "ff"), 50, rgb_to_kml("#566573", "80"), "", 10)>>,
    <<<<"aeroway", "terminal">>, FeatureStyle(rgb_to_kml("#2C3E50", "ff"), 20, rgb_to_kml("#ABB2B9", "80"), "", 10)>>,
    <<<<"aeroway", "*">>, FeatureStyle(rgb_to_kml("#566573", "ff"), 20, "", "", 10)>>,
    <<<<"natural", "peak">>, FeatureStyle(rgb_to_kml("#784212", "ff"), 10, "", ICON_PEAK, 12)>>,
    <<<<"natural", "cliff">>, FeatureStyle(rgb_to_kml("#784212", "ff"), 25, "", "", 10)>>,
    <<<<"natural", "beach">>, FeatureStyle(rgb_to_kml("#F9E79F", "ff"), 15, rgb_to_kml("#FCF3CF", "70"), "", 10)>>,
    <<<<"natural", "tree">>, FeatureStyle(rgb_to_kml("#196F3D", "ff"), 10, "", ICON_TREE, 8)>>,
    <<<<"natural", "*">>, FeatureStyle(rgb_to_kml("#7D6608", "ff"), 15, "", "", 10)>>,
    <<<<"boundary", "administrative">>, FeatureStyle(rgb_to_kml("#8E44AD", "ff"), 30, "", "", 10)>>,
    <<<<"boundary", "*">>, FeatureStyle(rgb_to_kml("#8E44AD", "ff"), 20, "", "", 10)>>,
    <<<<"transport", "stop">>, FeatureStyle(rgb_to_kml("#2980B9", "ff"), 15, "", ICON_BUS, 10)>>,
    <<<<"transport", "*">>, FeatureStyle(rgb_to_kml("#2980B9", "ff"), 15, "", ICON_BUS, 9)>>,
    <<<<"other", "*">>, FeatureStyle(rgb_to_kml("#BDC3C7", "ff"), 15, "", ICON_DEFAULT, 8)>>
  >>

\* A dict literal: each key maps to the value of its last item.
dict_literal(items) ==
  [key \in {items[k][1] : k \in DOMAIN items} |->
     LET last == CHOOSE k \in DOMAIN items :
                   /\ items[k][1] = key
                   /\ \A j \in DOMAIN items : items[j][1] = key => j <= k
     IN items[last][2]]

_STYLES == dict_literal(_STYLE_ITEMS)

\* The outcome of a call: a returned value or a raised exception
Return(value) == [ok |-> TRUE, value |-> value]
Raise(error) == [ok |-> FALSE, error |-> error]

\* d[key]: KeyError when the key is absent
dict_item(d, key) == IF key \in DOMAIN d THEN Return(d[key]) ELSE Raise("KeyError")

\* A plausible slip: the category wildcard tier is left out.
get_style_no_wildcard(category, subcategory) ==
  LET style == dict_get(loaded_styles, <<category, subcategory>>)
  IN IF style # None THEN Return(style[1])
     ELSE dict_item(loaded_styles, <<"other", "*">>)

\* A plausible slip: only the exact key is looked up, and a pair with no entry
\* of its own raises.
get_style_exact_only(category, subcategory) ==
  dict_item(loaded_styles, <<category, subcategory>>)

\* The lookups of get_style in the palette
get_style_in(styles, category, subcategory) ==
  LET style == dict_get(styles, <<category, subcategory>>)
  IN IF style # None THEN Return(style[1])
     ELSE LET style2 == dict_get(styles, <<category, "*">>)
          IN IF style2 # None THEN Return(style2[1])
             ELSE dict_item(styles, <<"other", "*">>)

get_style(category, subcategory) == get_style_in(loaded_styles, category, subcategory)

\* A plausible slip: the id is formatted from the category alone.
style_id_category_only(category, subcategory) == "style-" \o category

\* A plausible slip: the category left out of the id.
style_id_subcategory_only(category, subcategory) == "style-" \o subcategory

style_id(category, subcategory) == "style-" \o category \o "-" \o subcategory

-----------------------------------------------------------------------------
(* generator.py: branding / sanitisation *)

(***************************************************************************)
(* Python's re, for the constructs _OVERPASS_PATTERNS uses.  A pattern is  *)
(* a tree of nodes: a literal, a character set, a sequence, an alternation *)
(* and a greedy star; x+ is x x*, and x? is (?:x|).  re_ends gives the     *)
(* offsets (0-based, exclusive) at which a node can end when it starts at  *)
(* pos, in the order the backtracking matcher tries them: the first is the *)
(* match.                                                                   *)
(***************************************************************************)

Lit(s) == [op |-> "lit", s |-> s]
In(chars) == [op |-> "in", chars |-> chars]
SeqOf(items) == [op |-> "seq", items |-> items]
AltOf(items) == [op |-> "alt", items |-> items]
Star(item) == [op |-> "star", item |-> item]
Plus(item) == SeqOf(<<item, Star(item)>>)
Opt(item) == AltOf(<<item, SeqOf(<<>>)>>)

\* The characters \s matches and str.strip() trims, among those of the model
WHITESPACE == {" ", "\t", "\n"}

UpperLetters == "ABCDEFGHIJKLMNOPQRSTUVWXYZ"

LowerLetters == "abcdefghijklmnopqrstuvwxyz"

UpperChars == {char_at(UpperLetters, k) : k \in 1..26}

LowerChars == {char_at(LowerLetters, k) : k \in 1..26}

LowerOf == [c \in UpperChars |-> char_at(LowerLetters, index_of(c, UpperLetters))]

UpperOf == [c \in LowerChars |-> char_at(UpperLetters, index_of(c, LowerLetters))]

lower_char(c) == IF c \in UpperChars THEN LowerOf[c] ELSE c

upper_char(c) == IF c \in LowerChars THEN UpperOf[c] ELSE c

\* str.lower() and str.upper()
RECURSIVE str_lower_from(_, _)
str_lower_from(s, k) ==
  IF k > Len(s) THEN "" ELSE lower_char(char_at(s, k)) \o str_lower_from(s, k + 1)

str_lower(s) == str_lower_from(s, 1)

RECURSIVE str_upper_from(_, _)
str_upper_from(s, k) ==
  IF k > Len(s) THEN "" ELSE upper_char(char_at(s, k)) \o str_upper_from(s, k + 1)

str_upper(s) == str_upper_from(s, 1)

\* Two characters are the same to the matcher: equal, or equal without case
\* under re.IGNORECASE
same_char(flags, a, b) ==
  IF "IGNORECASE" \in flags THEN lower_char(a) = lower_char(b) ELSE a = b

\* The literal s matches text at offset pos, from its k-th character on
RECURSIVE lit_matches(_, _, _, _, _)
lit_matches(flags, s, text, pos, k) ==
  IF k > Len(s) THEN TRUE
  ELSE IF pos + k > Len(text) THEN FALSE
  ELSE IF same_char(flags, char_at(s, k), char_at(text, pos + k))
       THEN lit_matches(flags, s, text, pos, k + 1)
       ELSE FALSE

RECURSIVE re_ends(_, _, _, _)
RECURSIVE re_seq(_, _, _, _, _)
RECURSIVE re_alt(_, _, _, _, _)
RECURSIVE re_star(_, _, _, _)
RECURSIVE re_star_from(_, _, _, _)

re_ends(node, flags, text, pos) ==
  CASE node.op = "lit" ->
         IF lit_matches(flags, node.s, text, pos, 1) THEN <<pos + Len(node.s)>> ELSE <<>>
    [] node.op = "in" ->
         IF pos < Len(text) /\ char_at(text, pos + 1) \in node.chars
         THEN <<pos + 1>> ELSE <<>>
    [] node.op = "seq" -> re_seq(node.items, 1, flags, text, <<pos>>)
    [] node.op = "alt" -> re_alt(node.items, 1, flags, text, pos)
    [] node.op = "star" -> re_star(node.item, flags, text, pos)

\* items[k..] matched from each of the offsets starts, in order
re_seq(items, k, flags, text, starts) ==
  IF starts = <<>> THEN <<>>
  ELSE (IF k > Len(items) THEN <<Head(starts)>>
        ELSE re_seq(items, k + 1, flags, text, re_ends(items[k], flags, text, Head(starts))))
       \o re_seq(items, k, flags, text, Tail(starts))

\* the alternatives items[k..], the earlier one first
re_alt(items, k, flags, text, pos) ==
  IF k > Len(items) THEN <<>>
  ELSE re_ends(items[k], flags, text, pos) \o re_alt(items, k + 1, flags, text, pos)

\* item*, greedy: one more repetition is tried before stopping
re_star(item, flags, text, pos) ==
  LET advances(e) == e > pos
  IN re_star_from(item, flags, text, SelectSeq(re_ends(item, flags, text, pos), advances))
     \o <<pos>>

re_star_from(item, flags, text, starts) ==
  IF starts = <<>> THEN <<>>
  ELSE re_star(item, flags, text, Head(starts)) \o re_star_from(item, flags, text, Tail(starts))

re_compile(flags, node) == [flags |-> flags, node |-> node]

\* pattern.match(text, pos): the end of the match at pos, or None
re_match_end(pattern, text, pos) ==
  LET ends == re_ends(pattern.node, pattern.flags, text, pos)
  IN IF ends = <<>> THEN None ELSE Some(ends[1])

\* pattern.sub("", text), from offset pos on: the leftmost match is dropped
\* and the scan goes on behind it; an unmatched character is kept
RECURSIVE re_sub_empty(_, _, _)
re_sub_empty(pattern, text, pos) ==
  IF pos >= Len(text) THEN ""
  ELSE LET m == re_match_end(pattern, text, pos)
       IN IF m # None /\ m[1] > pos
          THEN re_sub_empty(pattern, text, m[1])
          ELSE char_at(text, pos + 1) \o re_sub_empty(pattern, text, pos + 1)

\* str.strip()
RECURSIVE str_lstrip(_)
str_lstrip(s) ==
  IF Len(s) > 0 /\ char_at(s, 1) \in WHITESPACE THEN str_lstrip(SubSeq(s, 2, Len(s))) ELSE s

RECURSIVE str_rstrip(_)
str_rstrip(s) ==
  IF Len(s) > 0 /\ char_at(s, Len(s)) \in WHITESPACE
  THEN str_rstrip(SubSeq(s, 1, Len(s) - 1)) ELSE s

str_strip(s) == str_rstrip(str_lstrip(s))

Ws == In(WHITESPACE)

\* [\s\-_]
Separator == In(WHITESPACE \cup {"-", "_"})

\* (?:turbo|api)?
TurboOrApi == Opt(AltOf(<<Lit("turbo"), Lit("api")>>))

\* The nine alternatives of the pattern, in the order written
_OVERPASS_ALTERNATIVES ==
  AltOf(<<
    SeqOf(<<Lit("exporte"), Opt(Lit("d")), Plus(Ws), Lit("from"), Plus(Ws),
            Lit("overpass"), Star(Separator), TurboOrApi>>),
    SeqOf(<<Lit("generate"), Opt(Lit("d")), Plus(Ws), Lit("by"), Plus(Ws),
            Lit("overpass"), Star(Separator), TurboOrApi>>),
    SeqOf(<<Lit("overpass"), Star(Separator), Lit("turbo")>>),
    SeqOf(<<Lit("overpass"), Star(Separator), Lit("api")>>),
    Lit("overpass"),
    Lit("osmtogeojson"),
    SeqOf(<<Lit("openstreetmap"), Star(Ws), Lit("export")>>),
    SeqOf(<<Lit("osm"), Star(Ws), Lit("export")>>),
    Lit("tokml")
  >>)

\* A plausible slip: the (?i) flag is left out.
_OVERPASS_PATTERNS_case_sensitive == re_compile({}, _OVERPASS_ALTERNATIVES)

_OVERPASS_PATTERNS == re_compile({"IGNORECASE"}, _OVERPASS_ALTERNATIVES)

ATOC_DESCRIPTION == "Processed by ATOC"

\* A plausible slip: case is ignored by lowering the text before the
\* substitution, which changes text that matches nothing.
_sanitise_text_lowering(text) ==
  str_strip(re_sub_empty(_OVERPASS_PATTERNS_case_sensitive, str_lower(text), 0))

_sanitise_text(text) == str_strip(re_sub_empty(_OVERPASS_PATTERNS, text, 0))

-----------------------------------------------------------------------------
(* generator.py: the document *)

(***************************************************************************)
(* A dict that is iterated is a sequence of <<key, value>> items with      *)
(* distinct keys, in insertion order.  An lxml element is a record with    *)
(* its tag, its text or attributes, and the sequence of its children.      *)
(***************************************************************************)

dict_keys(items) == {items[k][1] : k \in DOMAIN items}

dict_value(items, key) == items[CHOOSE k \in DOMAIN items : items[k][1] = key][2]

\* d[key] = value: a present key keeps its place, a new key goes last
dict_set(items, key, value) ==
  IF key \in dict_keys(items)
  THEN [k \in DOMAIN items |-> IF items[k][1] = key THEN <<key, value>> ELSE items[k]]
  ELSE Append(items, <<key, value>>)

\* sorted(d.items()): ascending by key; Python's sort is stable, and the
\* keys of a dict are distinct, so the values are never compared
RECURSIVE sorted_insert(_, _)
sorted_insert(done, item) ==
  IF done = <<>> THEN <<item>>
  ELSE IF str_lt(item[1], done[Len(done)][1])
       THEN Append(sorted_insert(SubSeq(done, 1, Len(done) - 1), item), done[Len(done)])
       ELSE Append(done, item)

RECURSIVE sorted_items_from(_, _)
sorted_items_from(items, k) ==
  IF k = 0 THEN <<>> ELSE sorted_insert(sorted_items_from(items, k - 1), items[k])

sorted_items(items) == sorted_items_from(items, Len(items))

\* The items of a dict given as a function (feature.tags), in any order
RECURSIVE items_of(_, _)
items_of(d, keys) ==
  IF keys = {} THEN <<>>
  ELSE LET key == CHOOSE x \in keys : TRUE
       IN <<<<key, d[key]>>>> \o items_of(d, keys \ {key})

str_startswith(s, prefix) ==
  Len(prefix) <= Len(s) /\ SubSeq(s, 1, Len(prefix)) = prefix

\* str.replace(old, new) for a one-character old
RECURSIVE str_replace_char(_, _, _)
str_replace_char(s, old, new) ==
  IF s = "" THEN ""
  ELSE (IF char_at(s, 1) = old THEN new ELSE char_at(s, 1))
       \o str_replace_char(SubSeq(s, 2, Len(s)), old, new)

is_cased(c) == c \in UpperChars \/ c \in LowerChars

\* str.title(): a cased character is upper case after an uncased one (or
\* at the start) and lower case after a cased one
RECURSIVE str_title_from(_, _, _)
str_title_from(s, k, previous_is_cased) ==
  IF k > Len(s) THEN ""
  ELSE LET c == char_at(s, k)
       IN (IF ~is_cased(c) THEN c
           ELSE IF previous_is_cased THEN lower_char(c) ELSE upper_char(c))
          \o str_title_from(s, k + 1, is_cased(c))

\* str.capitalize in place of str.title: only the first character is upper-cased
str_title_first_only(s) ==
  IF s = "" THEN "" ELSE str_upper(char_at(s, 1)) \o str_lower(SubSeq(s, 2, Len(s)))

str_title(s) == str_title_from(s, 1, FALSE)

\* str(n) of a non-negative int
RECURSIVE int_str(_)
int_str(n) ==
  IF n < 10 THEN char_at("0123456789", n + 1)
  ELSE int_str(n \div 10) \o char_at("0123456789", (n % 10) + 1)

\* str(x) of a float kept in tenths: 4.5 is "4.5", 5.0 is "5.0"
float_str(tenths) == int_str(tenths \div 10) \o "." \o int_str(tenths % 10)

\* _sub(parent, tag, text) and etree.Element: an element with text
Element(tag, text) == [tag |-> tag, text |-> text]

\* rows of the description: the tags in key order, without the reserved prefixes
RECURSIVE description_rows(_, _)
description_rows(items, k) ==
  IF k > Len(items) THEN ""
  ELSE (IF \E p \in {"@", "id", "source"} : str_startswith(items[k][1], p) THEN ""
        ELSE "<tr><td><b>" \o items[k][1] \o "</b></td><td>" \o items[k][2] \o "</td></tr>")
       \o description_rows(items, k + 1)

\* without the early return for no rows
_build_description_empty_table(feature) ==
  "<table>"
    \o description_rows(sorted_items(items_of(feature.tags, DOMAIN feature.tags)), 1)
    \o "</table>"

_build_description(feature) ==
  LET rows == description_rows(sorted_items(items_of(feature.tags, DOMAIN feature.tags)), 1)
  IN IF rows = "" THEN "" ELSE "<table>" \o rows \o "</table>"

\* <Style id="...">: an IconStyle for a Point with an icon, a LabelStyle, a
\* LineStyle, a PolyStyle for a Polygon with a fill colour
_build_style_element(sid, fstyle, geom_type) ==
  [tag |-> "Style",
   id |-> sid,
   children |->
     (IF geom_type = "Point" /\ fstyle.icon_href # ""
      THEN <<[tag |-> "IconStyle", scale |-> float_str(fstyle.icon_scale),
              color |-> fstyle.line_color, href |-> fstyle.icon_href]>>
      ELSE <<>>)
     \o <<[tag |-> "LabelStyle", color |-> fstyle.label_color,
           scale |-> float_str(fstyle.label_scale)]>>
     \o <<[tag |-> "LineStyle", color |-> fstyle.line_color,
           width |-> float_str(fstyle.line_width)]>>
     \o (IF geom_type = "Polygon" /\ fstyle.poly_color # ""
         THEN <<[tag |-> "PolyStyle", color |-> fstyle.poly_color,
                 fill |-> IF fstyle.poly_fill THEN "1" ELSE "0",
                 outline |-> IF fstyle.poly_outline THEN "1" ELSE "0"]>>
         ELSE <<>>)]

\* x or y on str: y when x is empty
str_or(x, y) == IF x # "" THEN x ELSE y

\* A plausible slip: the styleUrl is the style id without the leading "#".
_build_placemark_bare_style_url(feature, cls, fstyle, sid) ==
  [tag |-> "Placemark",
   name |-> str_or(_sanitise_text(feature.name),
                   str_title(str_replace_char(cls.subcategory, "_", " "))),
   description |-> IF _build_description(feature) # ""
                   THEN Some(_build_description(feature)) ELSE None,
   styleUrl |-> sid,
   geometry |-> feature.geometry_element]

\* <Placemark>: name, description when there is one, styleUrl, and a copy of
\* the geometry (the handle of the feature's geometry element)
_build_placemark(feature, cls, fstyle, sid) ==
  LET name == str_or(_sanitise_text(feature.name),
                     str_title(str_replace_char(cls.subcategory, "_", " ")))
      desc == _build_description(feature)
  IN [tag |-> "Placemark",
      name |-> name,
      description |-> IF desc # "" THEN Some(desc) ELSE None,
      styleUrl |-> "#" \o sid,
      geometry |-> feature.geometry_element]

folder_labels ==
  [category \in {"road", "railway", "water", "building", "green", "sport", "landuse",
                 "amenity", "tourism", "shop", "utility", "barrier", "aeroway",
                 "natural", "boundary", "transport", "other"} |->
     CASE category = "road" -> "Roads"
       [] category = "railway" -> "Railways"
       [] category = "water" -> "Water"
       [] category = "building" -> "Buildings"
       [] category = "green" -> "Green Spaces"
       [] category = "sport" -> "Sports"
       [] category = "landuse" -> "Land Use"
       [] category = "amenity" -> "Amenities"
       [] category = "tourism" -> "Tourism"
       [] category = "shop" -> "Shops"
       [] category = "utility" -> "Utilities"
       [] category = "barrier" -> "Barriers"
       [] category = "aeroway" -> "Aeroways"
       [] category = "natural" -> "Natural Features"
       [] category = "boundary" -> "Boundaries"
       [] category = "transport" -> "Public Transport"
       [] category = "other" -> "Other"]

\* A plausible slip: the label table is not consulted.
folder_label_titled(category) == str_title(category)

\* folder_labels.get(category, category.title())
folder_label(category) ==
  IF category \in DOMAIN folder_labels THEN folder_labels[category] ELSE str_title(category)

\* A plausible slip: the membership test is left out and every feature is
\* added to a list of styles.
collect_style_no_dedup(needed, cls, geometry_type) ==
  LET sid == style_id(cls.category, cls.subcategory)
      fstyle == get_style(cls.category, cls.subcategory)
  IN IF fstyle.ok
     THEN Return(Append(needed, <<sid, <<fstyle.value, geometry_type>>>>))
     ELSE fstyle

\* A plausible slip: the membership test is left out and a later feature
\* overwrites the entry of its style id.
collect_style_overwrite(needed, cls, geometry_type) ==
  LET sid == style_id(cls.category, cls.subcategory)
      fstyle == get_style(cls.category, cls.subcategory)
  IN IF fstyle.ok
     THEN Return(dict_set(needed, sid, <<fstyle.value, geometry_type>>))
     ELSE fstyle

\* Line 195: styles_needed[sid] = (fstyle, feat.geometry_type); an exception
\* get_style raised is passed on
keep_style(needed, sid, fstyle, geometry_type) ==
  IF fstyle.ok THEN Return(dict_set(needed, sid, <<fstyle.value, geometry_type>>)) ELSE fstyle

\* Lines 192-195 of generate_styled_kml: the style of a classification is
\* resolved and kept, with the feature's geometry type, only when its id is
\* not yet in styles_needed
collect_style(needed, cls, geometry_type) ==
  LET sid == style_id(cls.category, cls.subcategory)
  IN IF sid \notin dict_keys(needed)
     THEN keep_style(needed, sid, get_style(cls.category, cls.subcategory), geometry_type)
     ELSE Return(needed)

\* Lines 198-200: one style element per item of styles_needed, sorted
RECURSIVE style_elements(_, _)
style_elements(items, k) ==
  IF k > Len(items) THEN <<>>
  ELSE <<_build_style_element(items[k][1], items[k][2][1], items[k][2][2])>>
       \o style_elements(items, k + 1)

\* A plausible slip: the styles are emitted as first seen, without sorted().
emit_styles_first_seen(needed) == style_elements(needed, 1)

emit_styles(needed) == style_elements(sorted_items(needed), 1)

\* A plausible slip: grouped[cls.category] = [(feat, cls)], which keeps only
\* the last feature of a category.
RECURSIVE group_last_from(_, _, _)
group_last_from(groups, pairs, k) ==
  IF k > Len(pairs) THEN groups
  ELSE group_last_from(dict_set(groups, pairs[k][2].category, <<pairs[k]>>), pairs, k + 1)

group_by_category_last_only(pairs) == group_last_from(<<>>, pairs, 1)

\* Lines 207-209: grouped[cls.category].append((feat, cls)) for every
\* classified feature, from the k-th on
RECURSIVE group_from(_, _, _)
group_from(groups, pairs, k) ==
  IF k > Len(pairs) THEN groups
  ELSE LET category == pairs[k][2].category
           items == IF category \in dict_keys(groups)
                    THEN dict_value(groups, category) ELSE <<>>
       IN group_from(dict_set(groups, category, Append(items, pairs[k])),
                     pairs, k + 1)

group_by_category(pairs) == group_from(<<>>, pairs, 1)

\* A plausible slip: the groups are emitted as first seen, without sorted().
category_order_first_seen(groups) == groups

\* sorted(grouped.items()) of line 221
category_order(groups) == sorted_items(groups)

\* Lines 230-232 for one (feat, cls): the placemark, or the exception
\* get_style raised
styled_placemark(feat, cls, fstyle, sid) ==
  IF fstyle.ok THEN Return(_build_placemark(feat, cls, fstyle.value, sid)) ELSE fstyle

\* Line 233 and the next turns of the loop: the placemark and those after
\* it, or the first exception raised
append_placemarks(pm, rest) ==
  IF ~pm.ok THEN pm
  ELSE IF ~rest.ok THEN rest
  ELSE Return(<<pm.value>> \o rest.value)

\* Lines 229-233: the placemarks of one group, from its k-th item on; the
\* outcome is the sequence of placemarks, or the exception get_style raised
RECURSIVE placemarks_from(_, _)
placemarks_from(items, k) ==
  IF k > Len(items) THEN Return(<<>>)
  ELSE LET cls == items[k][2]
       IN append_placemarks(
            styled_placemark(items[k][1], cls, get_style(cls.category, cls.subcategory),
                             style_id(cls.category, cls.subcategory)),
            placemarks_from(items, k + 1))

\* A plausible slip: the Folder is made inside the loop over the items, one
\* per placemark.
folder_or_flat_per_item(folders, category, pms) ==
  IF ~pms.ok THEN pms
  ELSE IF folders
       THEN Return([k \in DOMAIN pms.value |->
                      [tag |-> "Folder", name |-> folder_label(category),
                       children |-> <<pms.value[k]>>]])
       ELSE Return(pms.value)

\* Lines 222-227: the children the document gains for one category, a
\* Folder holding the placemarks or the placemarks themselves
folder_or_flat(folders, category, pms) ==
  IF ~pms.ok THEN pms
  ELSE IF folders
       THEN Return(<<[tag |-> "Folder", name |-> folder_label(category),
                      children |-> pms.value]>>)
       ELSE Return(pms.value)

\* Lines 222-233 for one (category, items)
emit_category(folders, category, items) ==
  folder_or_flat(folders, category, placemarks_from(items, 1))
-----------------------------------------------------------------------------
(* Inputs of the classifier: every mapping of at most MaxTags of the sample *)
(* keys to the sample values.  "name" and "some_random_tag" are keys of no  *)
(* rule; the other keys have rules, and the values hit explicit value sets, *)
(* catch-all rules and nothing at all.                                      *)

MaxTags == 2

TagKeys == {"highway", "building", "natural", "water", "amenity", "name", "some_random_tag"}

TagValues == {"motorway", "primary", "yes", "water", "wood", "restaurant", "value"}

TagMappings ==
  UNION {[K -> TagValues] : K \in {K \in SUBSET TagKeys : Cardinality(K) <= MaxTags}}

\* styles.py has been imported: _STYLES holds the palette of lines 80-237
ConfigLoaded == loaded_styles = _STYLES

ClassifyIdle == c_tags = <<>> /\ c_result = None

StyleIdle == s_args = <<>> /\ s_result = None /\ s_ids = None

PlacemarkIdle == p_feature = <<>> /\ p_cls = <<>> /\ p_result = None

SanitiseIdle == t_text = "" /\ t_result = None

EmptyDocument == [name |-> "", description |-> "", children |-> <<>>]

GenerateIdle ==
  /\ features = <<>> /\ use_folders = TRUE /\ document_name = ""
  /\ pc = "idle" /\ next_feature = 0 /\ next_group = 0
  /\ classified = <<>> /\ styles_needed = <<>> /\ grouped = <<>>
  /\ doc = EmptyDocument

ClassifyInit ==
  /\ c_tags \in TagMappings /\ c_result = None
  /\ StyleIdle /\ SanitiseIdle /\ GenerateIdle /\ PlacemarkIdle /\ ConfigLoaded

\* classify(feature) on the feature's tags
ClassifyCall ==
  /\ c_result = None
  /\ c_result' = Some(classify(c_tags))
  /\ UNCHANGED <<c_tags, style_vars, sanitise_vars, generate_vars, placemark_vars, config_vars>>

SpecClassify == ClassifyInit /\ [][ClassifyCall]_vars

-----------------------------------------------------------------------------
(* Inputs of the style resolver: pairs over sample categories (of the      *)
(* palette, of the default classification, of no palette entry, empty) and *)
(* sample subcategories (with an exact entry, with none, the wildcard).    *)

StyleCategories == {"road", "water", "sport", "other", "zzz", ""}

StyleSubcategories == {"motorway", "lake", "facility", "unknown", "other", "*", ""}

StylePairs == StyleCategories \X StyleSubcategories

StyleInit ==
  /\ s_args \in StylePairs \X StylePairs
  /\ s_result = None /\ s_ids = None
  /\ ClassifyIdle /\ SanitiseIdle /\ GenerateIdle /\ PlacemarkIdle /\ ConfigLoaded

\* get_style(category, subcategory) on the first pair
GetStyleCall ==
  /\ s_result = None
  /\ s_result' = Some(get_style(s_args[1][1], s_args[1][2]))
  /\ UNCHANGED <<s_args, s_ids, classify_vars, sanitise_vars, generate_vars, placemark_vars, config_vars>>

\* style_id(category, subcategory) on each pair
StyleIdCall ==
  /\ s_ids = None
  /\ s_ids' = Some(<<style_id(s_args[1][1], s_args[1][2]),
                     style_id(s_args[2][1], s_args[2][2])>>)
  /\ UNCHANGED <<s_args, s_result, classify_vars, sanitise_vars, generate_vars, placemark_vars, config_vars>>

StyleNext == GetStyleCall \/ StyleIdCall

SpecStyle == StyleInit /\ [][StyleNext]_vars

-----------------------------------------------------------------------------
(* Inputs of the sanitiser: the concatenations of at most MaxWords of the   *)
(* sample fragments (plain text, whitespace, and pieces of the denylisted   *)
(* phrases), and sample texts for the alternatives the fragments leave out. *)

MaxWords == 3

Fragments ==
  {"Cafe", " ", "Exported from ", "Overpass", " Turbo", "-api", "over", "pass"}

SampleTexts ==
  {"Generated by Overpass_API", "generate  by overpass x", "Data via OSMtoGeoJSON tool",
   "OpenStreetMap\tExport", "openstreetmapexport 2", "made with toKML ", "tokm l",
   "Exporte from overpass", "EXPORTED FROM OVERPASS - TURBO!", "over-pass",
   "osm export", "my OSM  Export data", "osmexport", "osm-export"}

RECURSIVE Texts(_)
Texts(n) ==
  IF n = 0 THEN {""}
  ELSE LET shorter == Texts(n - 1)
       IN shorter \cup {t \o f : t \in shorter, f \in Fragments}

SanitiseInit ==
  /\ t_text \in Texts(MaxWords) \cup SampleTexts /\ t_result = None
  /\ ClassifyIdle /\ StyleIdle /\ GenerateIdle /\ PlacemarkIdle /\ ConfigLoaded

\* _sanitise_text(text)
SanitiseCall ==
  /\ t_result = None
  /\ t_result' = Some(_sanitise_text(t_text))
  /\ UNCHANGED <<t_text, classify_vars, style_vars, generate_vars, placemark_vars, config_vars>>

SpecSanitise == SanitiseInit /\ [][SanitiseCall]_vars

-----------------------------------------------------------------------------
(* Inputs of generate_styled_kml: at most MaxFeatures features drawn from   *)
(* a pool, either folder option, and a document name.  The pool has two     *)
(* features of one classification with different geometry types, two of    *)
(* one category with different classifications, features of no rule (one    *)
(* with no tag at all and a geometry type outside the enumeration), names  *)
(* that are empty or sanitise to nothing, and tags of the reserved          *)
(* prefixes.  A feature's geometry element is an opaque handle: its         *)
(* position in the input.                                                   *)

MaxFeatures == 3

Feature(name, geometry_type, tags) ==
  [name |-> name, geometry_type |-> geometry_type, tags |-> tags]

Tag1(key, value) == [k \in {key} |-> value]

Tag2(key1, value1, key2, value2) ==
  [k \in {key1, key2} |-> IF k = key1 THEN value1 ELSE value2]

FeaturePool ==
  {Feature("Cafe", "Point", Tag2("amenity", "restaurant", "@id", "node/1")),
   Feature("", "Polygon", Tag2("amenity", "cafe", "source", "survey")),
   Feature("M1", "LineString", Tag1("highway", "motorway")),
   Feature("Overpass Turbo", "Point", Tag2("highway", "primary", "building", "yes")),
   Feature("Lake", "Polygon", Tag1("natural", "water")),
   Feature("", "Circle", <<>>),
   Feature("Thing", "MultiGeometry", Tag1("some_random_tag", "value"))}

DocumentNames == {"ATOC Export"}

FeatureLists ==
  UNION {[1..n -> FeaturePool] : n \in 0..MaxFeatures}

\* The features as the parser hands them over, each with its own geometry
WithGeometry(list) ==
  [k \in DOMAIN list |->
     [name |-> list[k].name, geometry_type |-> list[k].geometry_type,
      geometry_element |-> k, tags |-> list[k].tags]]

GenerateInit ==
  /\ features \in {WithGeometry(list) : list \in FeatureLists}
  /\ use_folders \in BOOLEAN
  /\ document_name \in DocumentNames
  /\ pc = "called" /\ next_feature = 0 /\ next_group = 0
  /\ classified = <<>> /\ styles_needed = <<>> /\ grouped = <<>>
  /\ doc = EmptyDocument
  /\ ClassifyIdle /\ StyleIdle /\ SanitiseIdle /\ PlacemarkIdle /\ ConfigLoaded

\* Lines 179-187: the Document with its name and description, and the
\* empty accumulators
Begin ==
  /\ pc = "called"
  /\ doc' = [name |-> str_or(_sanitise_text(document_name), "ATOC Export"),
             description |-> ATOC_DESCRIPTION,
             children |-> <<>>]
  /\ classified' = <<>>
  /\ styles_needed' = <<>>
  /\ next_feature' = 1
  /\ pc' = "classify"
  /\ UNCHANGED <<call_vars, next_group, grouped, classify_vars, style_vars, sanitise_vars,
                 placemark_vars, config_vars>>

\* Lines 189-195: one turn of the loop over the features; an exception of
\* get_style leaves the call
ClassifyFeature ==
  /\ pc = "classify"
  /\ next_feature <= Len(features)
  /\ \E feat \in {features[next_feature]} :
       \E cls \in {classify(feat.tags)} :
         \E kept \in {collect_style(styles_needed, cls, feat.geometry_type)} :
           /\ classified' = Append(classified, <<feat, cls>>)
           /\ IF kept.ok
              THEN /\ styles_needed' = kept.value
                   /\ next_feature' = next_feature + 1
                   /\ pc' = pc
              ELSE /\ pc' = "raised"
                   /\ UNCHANGED <<styles_needed, next_feature>>
  /\ UNCHANGED <<call_vars, next_group, grouped, doc, classify_vars, style_vars,
                 sanitise_vars, placemark_vars, config_vars>>

\* Lines 198-200: the loop over the features is over; the shared styles
\* are appended to the Document
EmitStyles ==
  /\ pc = "classify"
  /\ next_feature > Len(features)
  /\ doc' = [doc EXCEPT !.children = @ \o emit_styles(styles_needed)]
  /\ pc' = "group"
  /\ UNCHANGED <<call_vars, next_feature, next_group, classified, styles_needed, grouped,
                 classify_vars, style_vars, sanitise_vars, placemark_vars, config_vars>>

\* Lines 207-219: the classified features grouped by category
GroupFeatures ==
  /\ pc = "group"
  /\ grouped' = group_by_category(classified)
  /\ next_group' = 1
  /\ pc' = "emit"
  /\ UNCHANGED <<call_vars, next_feature, classified, styles_needed, doc,
                 classify_vars, style_vars, sanitise_vars, placemark_vars, config_vars>>

\* Lines 221-233: one turn of the loop over sorted(grouped.items())
EmitCategory ==
  /\ pc = "emit"
  /\ next_group <= Len(grouped)
  /\ \E item \in {category_order(grouped)[next_group]} :
       \E added \in {emit_category(use_folders, item[1], item[2])} :
         IF added.ok
         THEN /\ doc' = [doc EXCEPT !.children = @ \o added.value]
              /\ next_group' = next_group + 1
              /\ pc' = pc
         ELSE /\ pc' = "raised"
              /\ UNCHANGED <<doc, next_group>>
  /\ UNCHANGED <<call_vars, next_feature, classified, styles_needed, grouped,
                 classify_vars, style_vars, sanitise_vars, placemark_vars, config_vars>>

\* Lines 235-241: the tree is serialised and returned
Serialise ==
  /\ pc = "emit"
  /\ next_group > Len(grouped)
  /\ pc' = "done"
  /\ UNCHANGED <<call_vars, next_feature, next_group, classified, styles_needed, grouped,
                 doc, classify_vars, style_vars, sanitise_vars, placemark_vars, config_vars>>

Next == Begin \/ ClassifyFeature \/ EmitStyles \/ GroupFeatures \/ EmitCategory \/ Serialise

Spec == GenerateInit /\ [][Next]_vars

-----------------------------------------------------------------------------
(* Process start.  The palette is compiled into styles.py; the process      *)
(* starts by importing the modules, and generate_styled_kml is called       *)
(* after that.  The configurations are the palette of the repository and    *)
(* that palette without its universal ("other", "*") entry.                 *)

\* a dict without one of its keys
without_key(d, key) == [k \in DOMAIN d \ {key} |-> d[k]]

Palettes == {_STYLES, without_key(_STYLES, <<"other", "*">>)}

\* A feature of a rule of the table and a feature of no rule
ConfigFeaturePool ==
  {Feature("M1", "LineString", Tag1("highway", "motorway")),
   Feature("", "Point", <<>>)}

ConfigInit ==
  /\ loaded_styles \in Palettes
  /\ features \in {WithGeometry(list) :
                      list \in UNION {[1..n -> ConfigFeaturePool] : n \in 0..MaxFeatures}}
  /\ use_folders \in BOOLEAN
  /\ document_name \in DocumentNames
  /\ pc = "start" /\ next_feature = 0 /\ next_group = 0
  /\ classified = <<>> /\ styles_needed = <<>> /\ grouped = <<>>
  /\ doc = EmptyDocument
  /\ ClassifyIdle /\ StyleIdle /\ SanitiseIdle /\ PlacemarkIdle

\* The import of opt_refactor.styles and opt_refactor.classifier: the module
\* bodies bind _STYLES and _RULES and define the functions; no statement
\* inspects the palette or the rule table, and the caller goes on to call
\* generate_styled_kml
ImportModules ==
  /\ pc = "start"
  /\ pc' = "called"
  /\ UNCHANGED <<call_vars, next_feature, next_group, classified, styles_needed, grouped,
                 doc, classify_vars, style_vars, sanitise_vars, placemark_vars, config_vars>>

ConfigNext == ImportModules \/ Next

SpecConfig == ConfigInit /\ [][ConfigNext]_vars

-----------------------------------------------------------------------------
(* Inputs of _build_placemark: a display name with every classification the *)
(* rule table or the default can produce, and a mapping of at most         *)
(* MaxTags + 1 of the sample keys (reserved prefixes, keys that merely      *)
(* contain one, and plain keys) with the classification of that mapping.    *)

RuleClassifications ==
  {Classification(_RULES[k].category, _RULES[k].subcategory) : k \in DOMAIN _RULES}
    \cup {_DEFAULT}

DescriptionTags ==
  UNION {[K -> {"cafe"}] :
           K \in {K \in SUBSET {"@id", "id", "identifier", "source", "sources", "amenity",
                                "name", "wikidata", "re@source"} :
                   Cardinality(K) <= MaxTags + 1}}

PlacemarkFeatures ==
  {[name |-> name, geometry_type |-> "Point", geometry_element |-> 1, tags |-> <<>>] :
     name \in {"", "Cafe", "Overpass Turbo", " osm export ", "M1 via toKML"}}

DescribedFeatures ==
  {[name |-> "Cafe", geometry_type |-> "Point", geometry_element |-> 1, tags |-> tags] :
     tags \in DescriptionTags}

PlacemarkInit ==
  /\ \/ p_feature \in PlacemarkFeatures /\ p_cls \in RuleClassifications
     \/ p_feature \in DescribedFeatures /\ p_cls = classify(p_feature.tags)
  /\ p_result = None
  /\ ClassifyIdle /\ StyleIdle /\ SanitiseIdle /\ GenerateIdle /\ ConfigLoaded

\* generator.py lines 190-194 and 227-230 for one feature: the style of the
\* classification, its id, and _build_placemark(feat, cls, fstyle, sid)
BuildPlacemark ==
  /\ p_result = None
  /\ \E fstyle \in {get_style(p_cls.category, p_cls.subcategory)} :
       /\ fstyle.ok
       /\ p_result' = Some(_build_placemark(p_feature, p_cls, fstyle.value,
                                            style_id(p_cls.category, p_cls.subcategory)))
  /\ UNCHANGED <<p_feature, p_cls, classify_vars, style_vars, sanitise_vars,
                 generate_vars, config_vars>>

SpecPlacemark == PlacemarkInit /\ [][BuildPlacemark]_vars
-----------------------------------------------------------------------------
(* Inputs of the classifier that probe the rule table: for every rule, the  *)
(* one-tag mappings of its key to each value of its value set, or to sample *)
(* values when the rule takes any value.                                    *)

ProbeValues(rule) == IF rule.values = None THEN {"yes", "unlisted"} ELSE rule.values[1]

RuleProbes ==
  UNION {{Tag1(_RULES[r].key, v) : v \in ProbeValues(_RULES[r])} : r \in DOMAIN _RULES}

RulesInit ==
  /\ c_tags \in RuleProbes /\ c_result = None
  /\ StyleIdle /\ SanitiseIdle /\ GenerateIdle /\ PlacemarkIdle /\ ConfigLoaded

SpecRules == RulesInit /\ [][ClassifyCall]_vars
-----------------------------------------------------------------------------
(* Inputs of style_id as the assembler calls it: pairs of classifications   *)
(* that classify can return, each a rule's (category, subcategory) or the   *)
(* default.                                                                 *)

StyleRulesInit ==
  /\ \E a \in RuleClassifications : \E b \in RuleClassifications :
       s_args = <<<<a.category, a.subcategory>>, <<b.category, b.subcategory>>>>
  /\ s_result = None /\ s_ids = None
  /\ ClassifyIdle /\ SanitiseIdle /\ GenerateIdle /\ PlacemarkIdle /\ ConfigLoaded

SpecStyleRules == StyleRulesInit /\ [][StyleNext]_vars
-----------------------------------------------------------------------------
(* Claims about classify *)

RuleKeys == {_RULES[k].key : k \in DOMAIN _RULES}

\* rule k accepts the mapping: its key is present and its value set is the
\* any-value wildcard or holds the tag's value
RuleAccepts(k, tags) ==
  /\ _RULES[k].key \in DOMAIN tags
  /\ (_RULES[k].values = None \/ tags[_RULES[k].key] \in _RULES[k].values[1])

Accepting(tags) == {k \in DOMAIN _RULES : RuleAccepts(k, tags)}

LowestAccepting(tags) == CHOOSE k \in Accepting(tags) : \A j \in Accepting(tags) : k <= j

\* C1: classify returns the (category, subcategory) of the lowest-index rule
\* whose key is present and whose value set is the wildcard or holds the
\* tag's value; a later accepting rule never decides, so a mapping with a
\* highway tag and a building tag is a road.
C1_FirstMatchWins ==
  (c_result # None /\ Accepting(c_tags) # {}) =>
    /\ c_result[1].category = _RULES[LowestAccepting(c_tags)].category
    /\ c_result[1].subcategory = _RULES[LowestAccepting(c_tags)].subcategory
    /\ ({"highway", "building"} \subseteq DOMAIN c_tags => c_result[1].category = "road")

\* C1 witness: classified, with a highway and a building tag, where a later
\* rule of another category accepts the mapping too
C1_Witness ==
  /\ c_result # None
  /\ {"highway", "building"} \subseteq DOMAIN c_tags
  /\ \E k \in Accepting(c_tags) : _RULES[k].category = "building"
  /\ c_result[1].category = "road"

\* C2: a mapping none of whose keys is a rule key, the empty mapping
\* included, is classified exactly ("other", "unknown").
C2_NoRuleKeyIsDefault ==
  (c_result # None /\ DOMAIN c_tags \cap RuleKeys = {}) =>
    c_result[1] = [category |-> "other", subcategory |-> "unknown"]

\* C2 witness: a non-empty mapping with no rule key has been classified
C2_Witness ==
  /\ c_result # None
  /\ c_tags # <<>>
  /\ DOMAIN c_tags \cap RuleKeys = {}
  /\ c_result[1].category = "other"

-----------------------------------------------------------------------------
(* Claims about get_style and style_id *)

\* The three lookups of a pair, in the documented order
StyleTiers(pair) == <<pair, <<pair[1], "*">>, <<"other", "*">>>>

StyleHits(pair) == {t \in 1..3 : StyleTiers(pair)[t] \in DOMAIN _STYLES}

\* C3: for every pair of strings get_style does not fail and returns the
\* palette entry of the first tier, among exact key, (category, "*") and
\* ("other", "*"), that has an entry; a later tier is used only when every
\* earlier tier has none.
C3_FirstTierWithEntry ==
  s_result # None =>
    /\ s_result[1].ok
    /\ StyleHits(s_args[1]) # {}
    /\ \A t \in StyleHits(s_args[1]) :
         (\A u \in StyleHits(s_args[1]) : t <= u) =>
           s_result[1].value = _STYLES[StyleTiers(s_args[1])[t]]

\* C3 witness: a pair with an entry in the wildcard tier alone was resolved
\* to it, not to the universal default
C3_Witness ==
  /\ s_result # None
  /\ StyleHits(s_args[1]) = {2, 3}
  /\ s_args[1][1] # "other"
  /\ s_result[1].ok
  /\ s_result[1].value = _STYLES[<<s_args[1][1], "*">>]
  /\ s_result[1].value # _STYLES[<<"other", "*">>]

\* C4: equal (category, subcategory) inputs give the same id, and two
\* inputs with the same category and different subcategories give
\* different ids.
C4_StyleIdPerSubcategory ==
  s_ids # None =>
    /\ (s_args[1] = s_args[2] => s_ids[1][1] = s_ids[1][2])
    /\ ((s_args[1][1] = s_args[2][1] /\ s_args[1][2] # s_args[2][2]) =>
          s_ids[1][1] # s_ids[1][2])

\* C4 witness: ids were computed for one category with two subcategories
C4_Witness ==
  /\ s_ids # None
  /\ s_args[1][1] = s_args[2][1]
  /\ s_args[1][2] # s_args[2][2]
  /\ s_ids[1][1] # s_ids[1][2]

-----------------------------------------------------------------------------
(* Claims about _sanitise_text *)

\* The spans <<start, end>> of the text the pattern can match
MatchSpans(pattern, text) ==
  UNION {{<<p, e>> : e \in Range(re_ends(pattern.node, pattern.flags, text, p))} :
           p \in 0..Len(text)}

NoDenylisted(text) == MatchSpans(_OVERPASS_PATTERNS, text) = {}

\* The characters of the text that lie in no span, in order
RECURSIVE OutsideFrom(_, _, _)
OutsideFrom(text, spans, q) ==
  IF q >= Len(text) THEN ""
  ELSE (IF \E sp \in spans : sp[1] <= q /\ q < sp[2] THEN "" ELSE char_at(text, q + 1))
       \o OutsideFrom(text, spans, q + 1)

\* a is b with some characters left out
RECURSIVE IsSubsequenceFrom(_, _, _, _)
IsSubsequenceFrom(a, b, i, j) ==
  IF i > Len(a) THEN TRUE
  ELSE IF j > Len(b) THEN FALSE
  ELSE IF char_at(a, i) = char_at(b, j) THEN IsSubsequenceFrom(a, b, i + 1, j + 1)
  ELSE IsSubsequenceFrom(a, b, i, j + 1)

IsSubsequence(a, b) == IsSubsequenceFrom(a, b, 1, 1)

AllWhitespace(s) == \A k \in 1..Len(s) : char_at(s, k) \in WHITESPACE

NoOuterWhitespace(s) ==
  s # "" => (char_at(s, 1) \notin WHITESPACE /\ char_at(s, Len(s)) \notin WHITESPACE)

\* r is text without its leading and trailing whitespace
IsTrimOf(r, text) ==
  /\ NoOuterWhitespace(r)
  /\ \E i \in 0..Len(text) :
       /\ i + Len(r) <= Len(text)
       /\ AllWhitespace(slice(text, 0, i))
       /\ r = slice(text, i, i + Len(r))
       /\ AllWhitespace(slice(text, i + Len(r), Len(text)))

\* C8 as claimed: a text with no denylisted substring is returned unaltered.
C8_Original ==
  (t_result # None /\ NoDenylisted(t_text)) => t_result[1] = t_text

\* C8, amended: a text with no denylisted substring is returned with its
\* leading and trailing whitespace trimmed and is otherwise unaltered (so
\* it is returned as it is when it has no surrounding whitespace).
C8_UnalteredButTrimmed ==
  (t_result # None /\ NoDenylisted(t_text)) =>
    /\ IsTrimOf(t_result[1], t_text)
    /\ (NoOuterWhitespace(t_text) => t_result[1] = t_text)

\* C8 witness: a text with no denylisted substring and with surrounding
\* whitespace was sanitised to its non-empty trimmed form
C8_Witness ==
  /\ t_result # None
  /\ NoDenylisted(t_text)
  /\ t_result[1] # t_text
  /\ t_result[1] # ""

C22_SanitiseIdempotent ==
  t_result # None =>
    /\ _sanitise_text(t_result[1]) = t_result[1]
    /\ NoDenylisted(t_result[1])
    /\ NoOuterWhitespace(t_result[1])
-----------------------------------------------------------------------------
(* Claims about generate_styled_kml *)

\* The elements of a sequence that have the given tag, in order
RECURSIVE WithTag(_, _)
WithTag(elements, tag) ==
  IF elements = <<>> THEN <<>>
  ELSE (IF Head(elements).tag = tag THEN <<Head(elements)>> ELSE <<>>)
       \o WithTag(Tail(elements), tag)

\* The style blocks of the document, in document order
StyleBlocks == WithTag(doc.children, "Style")

\* The placemarks of the document, in document order, in or out of folders
RECURSIVE PlacemarksOf(_)
PlacemarksOf(elements) ==
  IF elements = <<>> THEN <<>>
  ELSE (CASE Head(elements).tag = "Placemark" -> <<Head(elements)>>
          [] Head(elements).tag = "Folder" -> PlacemarksOf(Head(elements).children)
          [] OTHER -> <<>>)
       \o PlacemarksOf(Tail(elements))

Placemarks == PlacemarksOf(doc.children)

\* The classification the call gave the k-th input feature, and its style id
ClassOf(k) == classified[k][2]

StyleIdOf(k) == "style-" \o ClassOf(k).category \o "-" \o ClassOf(k).subcategory

\* The styles have just been appended to the document
StylesEmitted == pc = "group"

\* C5: one style block per distinct style id among the records'
\* classifications: as many blocks as distinct ids, and every record has
\* exactly one block of its id, so records of one classification share it.
C5_OneBlockPerStyleId ==
  StylesEmitted =>
    /\ Len(StyleBlocks) = Cardinality({StyleIdOf(k) : k \in DOMAIN features})
    /\ \A k \in DOMAIN features :
         Cardinality({b \in DOMAIN StyleBlocks :
                        StyleBlocks[b].id = StyleIdOf(k)}) = 1

\* C5 witness: two records with different tags and one classification, and
\* a record of another classification, gave two blocks
C5_Witness ==
  /\ StylesEmitted
  /\ Len(features) = 3
  /\ Len(StyleBlocks) = 2
  /\ \E k, m \in DOMAIN features :
       /\ k # m
       /\ features[k].tags # features[m].tags
       /\ ClassOf(k) = ClassOf(m)
       /\ ClassOf(k).category = "amenity"

\* The style ids generate_styled_kml emits for a list of classified features
RECURSIVE NeededFrom(_, _, _)
NeededFrom(needed, pairs, k) ==
  IF k > Len(pairs) THEN needed
  ELSE NeededFrom(collect_style(needed, pairs[k][2], pairs[k][1].geometry_type).value,
                  pairs, k + 1)

EmittedIds(pairs) ==
  LET blocks == emit_styles(NeededFrom(<<>>, pairs, 1))
  IN [b \in DOMAIN blocks |-> blocks[b].id]

IndexPermutations(n) == {p \in [1..n -> 1..n] : \A a, b \in 1..n : p[a] = p[b] => a = b}

\* C6: the style blocks are in ascending order of style id, and every
\* permutation of the records gives the same sequence of style ids.
C6_StylesSortedAnyOrder ==
  StylesEmitted =>
    /\ \A b \in 1..(Len(StyleBlocks) - 1) : str_lt(StyleBlocks[b].id, StyleBlocks[b + 1].id)
    /\ \A p \in IndexPermutations(Len(features)) :
         EmittedIds([k \in DOMAIN classified |-> classified[p[k]]])
           = [b \in DOMAIN StyleBlocks |-> StyleBlocks[b].id]

\* C6 witness: three records whose style ids are first seen in descending
\* order gave three blocks
C6_Witness ==
  /\ StylesEmitted
  /\ Len(features) = 3
  /\ Len(StyleBlocks) = 3
  /\ str_lt(StyleIdOf(3), StyleIdOf(2))
  /\ str_lt(StyleIdOf(2), StyleIdOf(1))

\* C7: the placemarks are the records stably sorted by category: the
\* category of a placemark is never greater than that of the next one, and
\* of two neighbours of one category the earlier record comes first.
C7_StableSortByCategory ==
  pc = "done" =>
    /\ Len(Placemarks) = Len(features)
    /\ \A k \in DOMAIN Placemarks : Placemarks[k].geometry \in DOMAIN features
    /\ \A k \in 1..(Len(Placemarks) - 1) :
         LET a == Placemarks[k].geometry
             b == Placemarks[k + 1].geometry
         IN \/ str_lt(ClassOf(a).category, ClassOf(b).category)
            \/ (ClassOf(a).category = ClassOf(b).category /\ a < b)

\* C7 witness: a category first seen after a greater one, with two records
\* of one category and different classifications around it
C7_Witness ==
  /\ pc = "done"
  /\ Len(features) = 3
  /\ ClassOf(1).category = "road"
  /\ ClassOf(2).category = "amenity"
  /\ ClassOf(3).category = "road"
  /\ ClassOf(1) # ClassOf(3)
  /\ <<Placemarks[1].geometry, Placemarks[2].geometry, Placemarks[3].geometry>> = <<2, 1, 3>>

\* C10: the call never fails, whatever the records; a record whose tags
\* match no rule is classified ("other", "unknown") and its style is the
\* universal ("other", "*") entry.
C10_NoRecordFails ==
  /\ pc # "raised"
  /\ \A k \in DOMAIN classified :
       (\A r \in DOMAIN _RULES : ~RuleAccepts(r, classified[k][1].tags)) =>
         /\ classified[k][2] = [category |-> "other", subcategory |-> "unknown"]
         /\ (k < next_feature =>
               /\ "style-other-unknown" \in dict_keys(styles_needed)
               /\ dict_value(styles_needed, "style-other-unknown")[1]
                    = _STYLES[<<"other", "*">>])
  /\ (pc = "done" => Len(Placemarks) = Len(features))

\* C10 witness: a call with a record without tags, of a geometry type
\* outside the enumeration and without a name, and a record whose tags
\* match no rule, has returned
C10_Witness ==
  /\ pc = "done"
  /\ \E k, m \in DOMAIN features :
       /\ features[k].tags = <<>>
       /\ features[k].name = ""
       /\ features[k].geometry_type \notin {"Point", "LineString", "Polygon", "MultiGeometry"}
       /\ features[m].tags # <<>>
       /\ \A r \in DOMAIN _RULES : ~RuleAccepts(r, features[m].tags)
  /\ Len(Placemarks) = Len(features)


\* The style generate_styled_kml resolved for the k-th input feature
StyleOf(k) == dict_value(styles_needed, StyleIdOf(k))[1]

\* C12: a record with the tags {natural: "water"} and a Polygon geometry is
\* classified ("water", "lake"), not by a later rule of the key natural, and
\* the style resolved for it has a non-empty fill colour.
C12_LakeIsWaterWithFill ==
  \A k \in DOMAIN classified :
    (/\ features[k].tags = Tag1("natural", "water")
     /\ features[k].geometry_type = "Polygon"
     /\ pc # "raised") =>
      /\ ClassOf(k) = Classification("water", "lake")
      /\ StyleOf(k) = _STYLES[<<"water", "lake">>]
      /\ StyleOf(k).poly_color # ""

\* C12 witness: a call with such a record has returned
C12_Witness ==
  /\ pc = "done"
  /\ \E k \in DOMAIN features :
       /\ features[k].tags = Tag1("natural", "water")
       /\ features[k].geometry_type = "Polygon"
       /\ ClassOf(k).subcategory = "lake"

\* The folders of the document, in document order
Folders == WithTag(doc.children, "Folder")

\* The folder f holds the placemark of the k-th input feature
FolderHolds(f, k) ==
  \E p \in DOMAIN f.children :
    f.children[p].tag = "Placemark" /\ f.children[p].geometry = k

\* C13: a record with the tags {highway: "motorway"} and a LineString
\* geometry is classified ("road", "motorway"), gets the motorway entry of
\* the palette, whose line width is greater than that of every other entry
\* of the category road, and with folders its placemark is in the folder
\* named "Roads".
C13_MotorwayWidestInRoads ==
  \A k \in DOMAIN classified :
    (/\ features[k].tags = Tag1("highway", "motorway")
     /\ features[k].geometry_type = "LineString"
     /\ pc # "raised") =>
      /\ ClassOf(k) = Classification("road", "motorway")
      /\ StyleOf(k) = _STYLES[<<"road", "motorway">>]
      /\ \A key \in DOMAIN _STYLES :
           (key[1] = "road" /\ key # <<"road", "motorway">>) =>
             _STYLES[key].line_width < StyleOf(k).line_width
      /\ (pc = "done" /\ use_folders) =>
           /\ \E f \in DOMAIN Folders : Folders[f].name = "Roads" /\ FolderHolds(Folders[f], k)
           /\ \A f \in DOMAIN Folders : FolderHolds(Folders[f], k) => Folders[f].name = "Roads"

\* C13 witness: a call with folders, with such a record and a record of
\* another category, has returned
C13_Witness ==
  /\ pc = "done"
  /\ use_folders
  /\ Len(Folders) >= 2
  /\ \E k \in DOMAIN features :
       /\ features[k].tags = Tag1("highway", "motorway")
       /\ features[k].geometry_type = "LineString"
       /\ \E f \in DOMAIN Folders : Folders[f].name = "Roads" /\ FolderHolds(Folders[f], k)

\* The first classified feature that has the style id
FirstWithStyleId(sid) ==
  CHOOSE k \in DOMAIN classified :
    /\ StyleIdOf(k) = sid
    /\ \A m \in DOMAIN classified : StyleIdOf(m) = sid => k <= m

\* The sections of a style block, in order
Sections(block) == [c \in DOMAIN block.children |-> block.children[c].tag]

\* C14: the geometry type kept for a style id is that of the first record
\* with the id, in every state of the loop and after it, so that no later
\* record changes it; each emitted block has one label and one line
\* section, an icon section exactly when the kept type is Point and the
\* style has an icon, before the label, and a fill section exactly when the
\* kept type is Polygon and the style has a fill colour, after the line.
C14_FirstSeenGeometryDecides ==
  /\ \A sid \in dict_keys(styles_needed) :
       /\ \E k \in DOMAIN classified : StyleIdOf(k) = sid
       /\ dict_value(styles_needed, sid)[2] = features[FirstWithStyleId(sid)].geometry_type
  /\ StylesEmitted =>
       \A b \in DOMAIN StyleBlocks :
         LET kept == dict_value(styles_needed, StyleBlocks[b].id)
             icon == kept[2] = "Point" /\ kept[1].icon_href # ""
             fill == kept[2] = "Polygon" /\ kept[1].poly_color # ""
         IN Sections(StyleBlocks[b])
              = (IF icon THEN <<"IconStyle">> ELSE <<>>)
                \o <<"LabelStyle", "LineStyle">>
                \o (IF fill THEN <<"PolyStyle">> ELSE <<>>)

\* C14 witness: a Polygon record and then a Point record of the same style
\* id, whose style has an icon, gave a block without an icon section
C14_Witness ==
  /\ StylesEmitted
  /\ \E k, m \in DOMAIN features :
       /\ k < m
       /\ StyleIdOf(k) = StyleIdOf(m)
       /\ features[k].geometry_type = "Polygon"
       /\ features[m].geometry_type = "Point"
       /\ StyleOf(m).icon_href # ""
       /\ \E b \in DOMAIN StyleBlocks :
            /\ StyleBlocks[b].id = StyleIdOf(m)
            /\ \A c \in DOMAIN StyleBlocks[b].children :
                 StyleBlocks[b].children[c].tag # "IconStyle"

\* The placemark of the k-th input feature is a direct child of the Document
DocumentHolds(k) ==
  \E p \in DOMAIN doc.children :
    doc.children[p].tag = "Placemark" /\ doc.children[p].geometry = k

CategoriesOfRecords == {ClassOf(k).category : k \in DOMAIN classified}

\* C17: without folders the document has no Folder and every record's
\* placemark is a child of the Document; with folders there is exactly one
\* Folder per category among the records, no Folder is empty, and every
\* placemark is in the Folder of its own category (and in no other place).
C17_FlatOrOneFolderPerCategory ==
  pc = "done" =>
    /\ ~use_folders =>
         /\ Folders = <<>>
         /\ \A k \in DOMAIN features : DocumentHolds(k)
    /\ use_folders =>
         /\ Len(Folders) = Cardinality(CategoriesOfRecords)
         /\ \A f \in DOMAIN Folders : WithTag(Folders[f].children, "Placemark") # <<>>
         /\ \A k \in DOMAIN features :
              /\ ~DocumentHolds(k)
              /\ \E f \in DOMAIN Folders : FolderHolds(Folders[f], k)
              /\ \A f \in DOMAIN Folders :
                   FolderHolds(Folders[f], k) =>
                     /\ \A j \in DOMAIN features :
                          FolderHolds(Folders[f], j)
                            <=> ClassOf(j).category = ClassOf(k).category
                     /\ ClassOf(k).category = "amenity" => Folders[f].name = "Amenities"
                     /\ ClassOf(k).category = "other" => Folders[f].name = "Other"
                     /\ ClassOf(k).category = "water" => Folders[f].name = "Water"

\* C17 witness: a call with folders has returned two folders for three
\* records, two of them of one category and not neighbours in the input
C17_Witness ==
  /\ pc = "done"
  /\ use_folders
  /\ Len(features) = 3
  /\ Len(Folders) = 2
  /\ ClassOf(1).category = ClassOf(3).category
  /\ ClassOf(1).category # ClassOf(2).category
  /\ FolderHolds(Folders[2], 1) /\ FolderHolds(Folders[2], 3) /\ FolderHolds(Folders[1], 2)

BlockIds == {StyleBlocks[b].id : b \in DOMAIN StyleBlocks}

\* C19: with and without folders, the styleUrl of every placemark is "#"
\* followed by the style id of the classification of its own record, and
\* the document has a style block with exactly that id.
C19_StyleUrlHasBlock ==
  pc = "done" =>
    \A p \in DOMAIN Placemarks :
      /\ Placemarks[p].styleUrl = "#" \o StyleIdOf(Placemarks[p].geometry)
      /\ StyleIdOf(Placemarks[p].geometry) \in BlockIds
      /\ \E id \in BlockIds : Placemarks[p].styleUrl = "#" \o id
      /\ features[Placemarks[p].geometry].tags = Tag1("natural", "water")
           => Placemarks[p].styleUrl = "#style-water-lake"

\* C19 witness: a call without folders has returned three placemarks, two
\* of them with one style reference, and two style blocks
C19_Witness ==
  /\ pc = "done"
  /\ ~use_folders
  /\ Len(Placemarks) = 3
  /\ Len(StyleBlocks) = 2
  /\ Placemarks[1].styleUrl = "#style-road-motorway"
  /\ Placemarks[2].styleUrl = "#style-water-lake"
  /\ Placemarks[3].styleUrl = "#style-water-lake"

\* The positions, in document order, of the placemarks made from the k-th record
PlacemarksOfRecord(k) == {p \in DOMAIN Placemarks : Placemarks[p].geometry = k}

\* C20: with and without folders the output has exactly one placemark per
\* input record: as many placemarks as records, none dropped, none twice.
C20_OnePlacemarkPerRecord ==
  pc = "done" =>
    /\ Len(Placemarks) = Len(features)
    /\ \A k \in DOMAIN features : Cardinality(PlacemarksOfRecord(k)) = 1
    /\ \A p \in DOMAIN Placemarks : Placemarks[p].geometry \in DOMAIN features

\* C20 witness: a call with three records of equal tags and names has
\* returned three placemarks, one per record
C20_Witness ==
  /\ pc = "done"
  /\ Len(features) = 3
  /\ features[1].tags = features[2].tags /\ features[2].tags = features[3].tags
  /\ features[1].name = features[3].name
  /\ Len(Placemarks) = 3
  /\ \A k \in 1..3 : PlacemarksOfRecord(k) = {k}
-----------------------------------------------------------------------------
(* Claims about the static configuration *)

\* The palette lacks its universal ("other", "*") entry
PaletteFault == <<"other", "*">> \notin DOMAIN loaded_styles

-----------------------------------------------------------------------------
(* Claims about _build_placemark, under SpecPlacemark                       *)

PlacemarkBuilt == p_result # None

Built == p_result[1]

IsLetter(c) == c \in UpperChars \/ c \in LowerChars

\* out is the rendering of sub: each underscore a space, the first letter of
\* each run of letters upper case and the other letters lower case
IsTitleRendering(out, sub) ==
  /\ Len(out) = Len(sub)
  /\ \A i \in 1..Len(sub) :
       LET c == char_at(sub, i)
           o == char_at(out, i)
       IN CASE c = "_" -> o = " "
            [] IsLetter(c) /\ (i = 1 \/ ~IsLetter(char_at(sub, i - 1))) -> o = str_upper(c)
            [] IsLetter(c) -> o = str_lower(c)
            [] OTHER -> o = c

\* C15: the name of the placemark is the sanitised display name when that is
\* not empty, and otherwise the subcategory with underscores replaced by
\* spaces and title-cased; the name is never empty for a classification of
\* the rule table or the default
C15_NameOrSubcategoryTitle ==
  PlacemarkBuilt =>
    /\ _sanitise_text(p_feature.name) # "" => Built.name = _sanitise_text(p_feature.name)
    /\ _sanitise_text(p_feature.name) = "" => IsTitleRendering(Built.name, p_cls.subcategory)
    /\ Built.name # ""
    /\ p_feature.name = "M1 via toKML" => Built.name = "M1 via"
    /\ p_feature.name = "" /\ p_cls = _DEFAULT => Built.name = "Unknown"
    /\ p_feature.name = "" /\ p_cls.subcategory = "nature_reserve"
         => Built.name = "Nature Reserve"

C15_Witness ==
  /\ PlacemarkBuilt
  /\ p_feature.name = " osm export "
  /\ p_cls = Classification("utility", "power_line")
  /\ Built.name = "Power Line"

ReservedPrefixes == {"@", "id", "source"}

SurvivingKeys ==
  {k \in DOMAIN p_feature.tags :
     \A p \in ReservedPrefixes : Len(k) < Len(p) \/ SubSeq(k, 1, Len(p)) # p}

RowOf(k) == "<tr><td><b>" \o k \o "</b></td><td>" \o p_feature.tags[k] \o "</td></tr>"

\* the positions of text at which part occurs
Occurrences(part, text) ==
  {i \in 1..(Len(text) - Len(part) + 1) : SubSeq(text, i, i + Len(part) - 1) = part}

\* C16: the description holds exactly one row per tag whose key starts with
\* none of "@", "id", "source", the rows are in lexicographic order of the
\* key, and a placemark with no such tag has no description element
C16_DescriptionRows ==
  PlacemarkBuilt =>
    /\ Built.description = None <=> SurvivingKeys = {}
    /\ Built.description # None =>
         LET text == Built.description[1]
         IN /\ SubSeq(text, 1, 7) = "<table>"
            /\ SubSeq(text, Len(text) - 7, Len(text)) = "</table>"
            /\ Cardinality(Occurrences("<tr>", text)) = Cardinality(SurvivingKeys)
            /\ \A k \in SurvivingKeys : Cardinality(Occurrences(RowOf(k), text)) = 1
            /\ \A k \in SurvivingKeys : \A j \in SurvivingKeys :
                 str_lt(k, j) =>
                   \A a \in Occurrences(RowOf(k), text) :
                     \A b \in Occurrences(RowOf(j), text) : a < b
            /\ \A k \in DOMAIN p_feature.tags \ SurvivingKeys :
                 Occurrences("<b>" \o k \o "</b>", text) = {}

C16_Witness ==
  /\ PlacemarkBuilt
  /\ DOMAIN p_feature.tags = {"wikidata", "identifier", "amenity"}
  /\ Built.description
       = Some("<table><tr><td><b>amenity</b></td><td>cafe</td></tr>"
                \o "<tr><td><b>wikidata</b></td><td>cafe</td></tr></table>")
-----------------------------------------------------------------------------
(* Claims about the rule table, under SpecRules                             *)

Accepts(rule, tags) ==
  rule.key \in DOMAIN tags /\ (rule.values = None \/ tags[rule.key] \in rule.values[1])

\* rule r of the table is the first one that accepts the mapping
IsFirstMatch(rules, r, tags) ==
  Accepts(rules[r], tags) /\ \A q \in 1..(r - 1) : ~Accepts(rules[q], tags)

\* every value-set rule of the key has a lower index than the key's any-value rule
ExplicitBeforeCatchAll(rules, key) ==
  \A r \in DOMAIN rules : \A q \in DOMAIN rules :
    (/\ rules[r].key = key /\ rules[r].values # None
     /\ rules[q].key = key /\ rules[q].values = None) => r < q

\* every rule of the key is the first match of some mapping
EveryRuleReached(rules, key) ==
  \A r \in DOMAIN rules :
    rules[r].key = key =>
      \E v \in ProbeValues(rules[r]) : IsFirstMatch(rules, r, Tag1(key, v))

\* the call on the mapping returned the classification of its first match,
\* and a value of a value-set rule did not fall to the any-value rule
ProbeLandsOnExplicit(rules, tags, result) ==
  \E r \in DOMAIN rules :
    /\ IsFirstMatch(rules, r, tags)
    /\ result = Classification(rules[r].category, rules[r].subcategory)
    /\ (\E q \in DOMAIN rules : rules[q].values # None /\ Accepts(rules[q], tags))
         => rules[r].values # None

\* C18: for every key with an any-value rule, the value-set rules of the
\* key come before it in the table, so that the key's catch-all shadows
\* none of them; and every rule of the table is the first match of at least
\* one mapping.
C18_NoRuleShadowed ==
  c_result # None =>
    \A key \in DOMAIN c_tags :
      /\ ExplicitBeforeCatchAll(_RULES, key)
      /\ EveryRuleReached(_RULES, key)
      /\ ProbeLandsOnExplicit(_RULES, c_tags, c_result[1])

\* C18 witness: a value of the last value-set rule of a key whose rules are
\* spread over the table has been classified by that rule, not by the
\* any-value rule that follows it
C18_Witness ==
  /\ c_tags = Tag1("natural", "tree")
  /\ c_result = Some(Classification("natural", "tree"))
  /\ _RULES[77].key = "natural" /\ _RULES[77].values = None
-----------------------------------------------------------------------------
(* Claims about style_id on the classifications of classify, under          *)
(* SpecStyleRules                                                           *)

\* C21: style_id is injective on the classifications classify can return
\* (the pair of every rule, and the default): two of them with equal style
\* ids are equal, so one style id never stands for two classifications.
C21_StyleIdInjectiveOnRules ==
  s_ids # None =>
    /\ s_ids[1][1] = s_ids[1][2] => s_args[1] = s_args[2]
    /\ s_args[1] = <<"road", "other">> => s_ids[1][1] = "style-road-other"

\* C21 witness: ids were computed for two classifications of different
\* categories and one subcategory, and differ
C21_Witness ==
  /\ s_ids # None
  /\ s_args[1] = <<"road", "other">>
  /\ s_args[2] = <<"railway", "other">>
  /\ s_ids[1] = <<"style-road-other", "style-railway-other">>
====
